---- MODULE Spec2Model ----
(***************************************************************************)
(* Model of the Synthor synthesizer (src/main.py): the per-oscillator      *)
(* generation pipeline (waveform -> LFO -> filter), the three-oscillator   *)
(* mixer, and the SynthPolyphony voice pool with its active_notes table.   *)
(*                                                                         *)
(* A Signal is abstracted to its length and to whether it is identically   *)
(* zero by construction; a pygame channel to its busy flag and to the key  *)
(* whose sound it is playing.                                              *)
(***************************************************************************)
EXTENDS Integers, Sequences, FiniteSets, TLC

VARIABLES oscillators, channels, active_notes, last, gen

vars == <<oscillators, channels, active_notes, last, gen>>

----------------------------------------------------------------------------
(* Bounds of the model *)

\* Size of the channel pool.  The source creates 8 channels (NUM_VOICES = 8,
\* main.py line 15); the pool is scaled down so that the full pool, a steal
\* and the reuse of finished channels are all explored exhaustively.  Every
\* formula below is stated in terms of NUM_VOICES.
NUM_VOICES == 3

\* How many keys of the keyboard table deliver events.
NumKeys == 4

----------------------------------------------------------------------------
(* Program constants *)

SAMPLE_RATE == 44100

NumOsc == 3

----------------------------------------------------------------------------
(* Waveform enum and the option lists of the control surface *)

Waveform ==
  {"SINE", "SAWTOOTH", "TRIANGLE", "SQUARE", "PULSE",
   "NOISE_WHITE", "NOISE_PINK", "NOISE_BROWN"}

waveform_options == Waveform \cup {"OFF"}

filter_options == {"lowpass", "highpass", "bandpass", "notch"}

lfo_waveform_options == Waveform

\* The LFO waveforms selected in the model: the one generate_lfo_wave
\* implements and one it does not.
LfoChoices == {"SINE", "SQUARE"}

\* Values the cutoff setter is called with (Hz): the default, the Nyquist
\* frequency and a value above it.
CutoffValues == {1000, 22050, 30000}

\* Values the LFO rate setter is called with (Hz): the slider's range ends.
RateValues == {1, 10}

\* Durations generate_wave is called with, in milliseconds (generate_sound
\* always uses 1000).
DurationsMs == {1, 500, 1000}

----------------------------------------------------------------------------
(* Keyboard table *)

key_frequencies ==
  ("q" :> 104650) @@ ("w" :> 110873) @@ ("e" :> 117466) @@ ("r" :> 124451) @@
  ("t" :> 131851) @@ ("y" :> 139691) @@ ("u" :> 147998) @@ ("i" :> 156798) @@
  ("o" :> 166122) @@ ("p" :> 176000) @@
  ("a" :> 88000) @@ ("s" :> 93233) @@ ("d" :> 98777) @@ ("f" :> 104650) @@
  ("g" :> 110873) @@ ("h" :> 117466) @@ ("j" :> 124451) @@ ("k" :> 131851) @@
  ("l" :> 139691) @@
  ("z" :> 44000) @@ ("x" :> 46616) @@ ("c" :> 49388) @@ ("v" :> 52325) @@
  ("b" :> 55437) @@ ("n" :> 58733) @@ ("m" :> 62225)

KeyOrder ==
  <<"q", "w", "e", "r", "t", "y", "u", "i", "o", "p", "a", "s", "d",
    "f", "g", "h", "j", "k", "l", "z", "x", "c", "v", "b", "n", "m">>

\* The keys that are pressed and released in the model.
Keys == {KeyOrder[i] : i \in 1..NumKeys}

\* event.char values delivered: the keys, one of them with shift held, and a
\* character that is not in the keyboard table.
Chars == Keys \cup {"Q", "1"}

\* str.lower on the characters delivered.
lower(c) == IF c = "Q" THEN "q" ELSE c

----------------------------------------------------------------------------
(* Filter, LFO, Oscillator objects *)

Filter(cutoff_frequency) ==
  [type |-> "lowpass", cutoff_frequency |-> cutoff_frequency, order |-> 2]

LFO(rate) == [waveform |-> "SINE", rate |-> rate]

Oscillator(waveform) ==
  [waveform |-> waveform, active |-> TRUE, filter |-> Filter(1000), lfo |-> LFO(1)]

\* int(SAMPLE_RATE * duration), duration given in milliseconds.
NumSamples(duration_ms) == (SAMPLE_RATE * duration_ms) \div 1000

zeros(n) == [len |-> n, zero |-> TRUE]

\* scipy.signal.butter on a scalar digital cutoff Wn = num/den: a ValueError
\* for a band type given one frequency, for an unknown type and for Wn
\* outside [0, 1]; at Wn = 0 and Wn = 1 a strict scipy raises and a lenient
\* one returns degenerate coefficients.
butter(order, Wn, btype, strict) ==
  IF btype \notin {"lowpass", "highpass"} THEN "ValueError"
  ELSE IF Wn.num < 0 \/ Wn.num > Wn.den THEN "ValueError"
  ELSE IF Wn.num = 0 \/ Wn.num = Wn.den
       THEN (IF strict THEN "ValueError" ELSE "degenerate")
  ELSE "coefficients"

\* Filter.butter_filter: the normalized cutoff handed to butter, as the
\* exact fraction cutoff / (0.5 * fs).
butter_filter(cutoff, fs, order, filter_type) ==
  [order |-> order, Wn |-> [num |-> 2 * cutoff, den |-> fs], btype |-> filter_type]

\* Filter.apply_filter: the design call and the filtered waveform.
apply_filter(filter, waveform, strict) ==
  LET call == butter_filter(filter.cutoff_frequency, SAMPLE_RATE, filter.order, filter.type)
      ba   == butter(call.order, call.Wn, call.btype, strict)
  IN  [call   |-> call,
       raised |-> ba = "ValueError",
       wave   |-> [len  |-> waveform.len,
                   zero |-> waveform.zero /\ ba = "coefficients"]]

\* LFO.generate_lfo_wave: a sine envelope, or the constant 1 for the rest.
generate_lfo_wave(lfo, duration_ms, rate) ==
  [len |-> NumSamples(duration_ms), ones |-> lfo.waveform # "SINE"]

\* LFO.apply_lfo: elementwise product with the envelope.
apply_lfo(lfo, waveform, duration_ms) ==
  LET lfo_wave == generate_lfo_wave(lfo, duration_ms, lfo.rate)
  IN  [len |-> waveform.len, zero |-> waveform.zero]

\* The waveform branch of Oscillator.generate_wave.
raw_wave(waveform, frequency, duration_ms) ==
  IF waveform \in {"SINE", "SAWTOOTH", "TRIANGLE", "SQUARE", "PULSE", "NOISE_WHITE"}
  THEN [len |-> NumSamples(duration_ms), zero |-> FALSE]
  ELSE zeros(NumSamples(duration_ms))

\* A generate_wave that gates only the waveform and always runs the LFO and
\* the filter.
generate_wave_no_bypass(osc, frequency, duration_ms, strict) ==
  LET wave == IF osc.active THEN raw_wave(osc.waveform, frequency, duration_ms)
              ELSE zeros(NumSamples(duration_ms))
      mod  == apply_lfo(osc.lfo, wave, duration_ms)
      flt  == apply_filter(osc.filter, mod, strict)
  IN  [frequency |-> frequency, duration_ms |-> duration_ms,
       raised |-> flt.raised, wave |-> flt.wave,
       stages |-> <<"waveform", "lfo", "filter">>,
       butter_calls |-> <<flt.call>>]

\* A generate_wave that filters before it modulates.
generate_wave_filter_first(osc, frequency, duration_ms, strict) ==
  IF ~osc.active
  THEN [frequency |-> frequency, duration_ms |-> duration_ms,
        raised |-> FALSE, wave |-> zeros(NumSamples(duration_ms)),
        stages |-> <<"waveform">>, butter_calls |-> <<>>]
  ELSE LET wave == raw_wave(osc.waveform, frequency, duration_ms)
           flt  == apply_filter(osc.filter, wave, strict)
           mod  == apply_lfo(osc.lfo, flt.wave, duration_ms)
       IN  [frequency |-> frequency, duration_ms |-> duration_ms,
            raised |-> flt.raised, wave |-> mod,
            stages |-> <<"waveform", "filter", "lfo">>,
            butter_calls |-> <<flt.call>>]

\* Oscillator.generate_wave: the stages run, the filter design calls made,
\* and the wave returned (when the call did not raise).
generate_wave(osc, frequency, duration_ms, strict) ==
  IF ~osc.active
  THEN [frequency |-> frequency, duration_ms |-> duration_ms,
        raised |-> FALSE, wave |-> zeros(NumSamples(duration_ms)),
        stages |-> <<"waveform">>, butter_calls |-> <<>>]
  ELSE LET wave == raw_wave(osc.waveform, frequency, duration_ms)
           mod  == apply_lfo(osc.lfo, wave, duration_ms)
           flt  == apply_filter(osc.filter, mod, strict)
       IN  [frequency |-> frequency, duration_ms |-> duration_ms,
            raised |-> flt.raised, wave |-> flt.wave,
            stages |-> <<"waveform", "lfo", "filter">>,
            butter_calls |-> <<flt.call>>]

----------------------------------------------------------------------------
(* SynthesizerApp.generate_sound *)

OscIndex == 0..(NumOsc - 1)

\* The generate_wave calls of the list comprehension, in index order, up to
\* and including the first one that raises.
waves_of(oscs, frequency, duration_ms, strict) ==
  LET all == [i \in OscIndex |-> generate_wave(oscs[i], frequency, duration_ms, strict)]
      bad == {i \in OscIndex : all[i].raised}
      upto == IF bad = {} THEN NumOsc - 1
              ELSE CHOOSE i \in bad : \A j \in bad : i <= j
  IN  [i \in 0..upto |-> all[i]]

\* np.sum(waves, axis=0) / len(self.oscillators)
mix(waves, count) ==
  [len     |-> waves[0].wave.len,
   zero    |-> \A i \in DOMAIN waves : waves[i].wave.zero,
   divisor |-> count]

generate_sound(oscs, key, strict) ==
  LET waves == waves_of(oscs, key_frequencies[key], 1000, strict)
      raised == \E i \in DOMAIN waves : waves[i].raised
  IN  [waves  |-> waves,
       raised |-> raised,
       sound  |-> IF raised THEN <<>> ELSE <<mix(waves, NumOsc)>>]

----------------------------------------------------------------------------
(* SynthPolyphony *)

ChanIndex == 0..(NUM_VOICES - 1)

NoSound == ""

Idle == [busy |-> FALSE, sound |-> NoSound]

get_busy(ch) == ch.busy

\* An allocation that takes the last free channel.
available_channel_last(chs) ==
  IF \E i \in ChanIndex : ~get_busy(chs[i])
  THEN CHOOSE i \in ChanIndex :
         ~get_busy(chs[i]) /\ \A j \in ChanIndex : ~get_busy(chs[j]) => j <= i
  ELSE 0

\* next((ch for ch in self.channels if not ch.get_busy()), self.channels[0])
available_channel(chs) ==
  IF \E i \in ChanIndex : ~get_busy(chs[i])
  THEN CHOOSE i \in ChanIndex :
         ~get_busy(chs[i]) /\ \A j \in ChanIndex : ~get_busy(chs[j]) => i <= j
  ELSE 0

\* A play_sound that starts playback and records the note on channel 0.
play_sound_records_first(chs, notes, key) ==
  LET c == available_channel(chs)
  IN  [channels     |-> [chs EXCEPT ![c] = [busy |-> TRUE, sound |-> key]],
       active_notes |-> [k \in (DOMAIN notes) \cup {key} |->
                           IF k = key THEN 0 ELSE notes[k]],
       slot         |-> c]

\* SynthPolyphony.play_sound: the new channels and table.
play_sound(chs, notes, key) ==
  LET c == available_channel(chs)
  IN  [channels     |-> [chs EXCEPT ![c] = [busy |-> TRUE, sound |-> key]],
       active_notes |-> [k \in (DOMAIN notes) \cup {key} |->
                           IF k = key THEN c ELSE notes[k]],
       slot         |-> c]

\* A stop_sound that stops the channel and keeps the entry.
stop_sound_keeps_entry(chs, notes, key) ==
  IF key \in DOMAIN notes
  THEN [channels     |-> [chs EXCEPT ![notes[key]] = Idle],
        active_notes |-> notes,
        slot         |-> notes[key]]
  ELSE [channels |-> chs, active_notes |-> notes, slot |-> -1]

\* SynthPolyphony.stop_sound: the new channels and table.
stop_sound(chs, notes, key) ==
  IF key \in DOMAIN notes
  THEN [channels     |-> [chs EXCEPT ![notes[key]] = Idle],
        active_notes |-> [k \in (DOMAIN notes) \ {key} |-> notes[k]],
        slot         |-> notes[key]]
  ELSE [channels |-> chs, active_notes |-> notes, slot |-> -1]

----------------------------------------------------------------------------
(* State and handlers *)

Done(op, char, slot, result, sound) ==
  [op |-> op, char |-> char, slot |-> slot, result |-> result, sound |-> sound]

NoGen == [i \in {} |-> 0]

Init ==
  /\ oscillators = [i \in OscIndex |-> Oscillator("SINE")]
  /\ channels = [i \in ChanIndex |-> Idle]
  /\ active_notes = [k \in {} |-> 0]
  /\ last = Done("init", "", -1, "constructed", <<>>)
  /\ gen = NoGen

\* The guard of on_key_press without the table lookup.
triggers_always(notes, key) == key \in DOMAIN key_frequencies

\* The guard of on_key_press: the key has no entry and is in the table.
triggers(notes, key) == key \notin DOMAIN notes /\ key \in DOMAIN key_frequencies

\* SynthesizerApp.on_key_press
on_key_press(char, strict) ==
  LET key == lower(char)
  IN  IF triggers(active_notes, key)
      THEN LET g == generate_sound(oscillators, key, strict)
               p == play_sound(channels, active_notes, key)
           IN  IF g.raised
               THEN /\ gen' = g.waves
                    /\ last' = Done("on_key_press", char, -1, "raised", <<>>)
                    /\ UNCHANGED <<oscillators, channels, active_notes>>
               ELSE /\ gen' = g.waves
                    /\ channels' = p.channels
                    /\ active_notes' = p.active_notes
                    /\ last' = Done("on_key_press", char, p.slot, "played", g.sound)
                    /\ UNCHANGED oscillators
      ELSE /\ last' = Done("on_key_press", char, -1, "ignored", <<>>)
           /\ gen' = NoGen
           /\ UNCHANGED <<oscillators, channels, active_notes>>

\* SynthesizerApp.on_key_release
on_key_release(char) ==
  LET key == lower(char)
  IN  IF key \in DOMAIN active_notes
      THEN LET s == stop_sound(channels, active_notes, key)
           IN  /\ channels' = s.channels
               /\ active_notes' = s.active_notes
               /\ last' = Done("on_key_release", char, s.slot, "stopped", <<>>)
               /\ gen' = NoGen
               /\ UNCHANGED oscillators
      ELSE /\ last' = Done("on_key_release", char, -1, "ignored", <<>>)
           /\ gen' = NoGen
           /\ UNCHANGED <<oscillators, channels, active_notes>>

\* The mixer finishes playing the sound queued on channel i.
channel_finished(i) ==
  /\ get_busy(channels[i])
  /\ channels' = [channels EXCEPT ![i] = Idle]
  /\ last' = Done("channel_finished", "", i, "finished", <<>>)
  /\ gen' = NoGen
  /\ UNCHANGED <<oscillators, active_notes>>

Setter(op, oscs) ==
  /\ oscillators' = oscs
  /\ last' = Done(op, "", -1, "set", <<>>)
  /\ gen' = NoGen
  /\ UNCHANGED <<channels, active_notes>>

\* SynthesizerApp.update_oscillator_waveform
update_oscillator_waveform(index, waveform_name) ==
  IF waveform_name = "OFF"
  THEN Setter("update_oscillator_waveform",
              [oscillators EXCEPT ![index].active = FALSE])
  ELSE Setter("update_oscillator_waveform",
              [oscillators EXCEPT ![index].waveform = waveform_name,
                                  ![index].active = TRUE])

\* SynthesizerApp.update_filter_type
update_filter_type(index, filter_type) ==
  Setter("update_filter_type", [oscillators EXCEPT ![index].filter.type = filter_type])

\* SynthesizerApp.update_lfo_waveform
update_lfo_waveform(index, waveform_name) ==
  Setter("update_lfo_waveform", [oscillators EXCEPT ![index].lfo.waveform = waveform_name])

\* SynthesizerApp.update_filter_cutoff
update_filter_cutoff(index, cutoff) ==
  Setter("update_filter_cutoff",
         [oscillators EXCEPT ![index].filter.cutoff_frequency = cutoff])

\* SynthesizerApp.update_lfo_rate
update_lfo_rate(index, rate) ==
  Setter("update_lfo_rate", [oscillators EXCEPT ![index].lfo.rate = rate])

----------------------------------------------------------------------------
(* Specification of the voice pool: key events and channel completion, the *)
(* oscillators left as constructed.                                        *)

KeyPress == \E c \in Chars, strict \in BOOLEAN : on_key_press(c, strict)

KeyRelease == \E c \in Chars : on_key_release(c)

ChannelFinished == \E i \in ChanIndex : channel_finished(i)

Next == KeyPress \/ KeyRelease \/ ChannelFinished

Spec == Init /\ [][Next]_vars

----------------------------------------------------------------------------
(* Specification of the synthesis path: the control surface drives the     *)
(* first oscillator through every option and switches the other layers on  *)
(* and off; one key is played; generate_wave is also called directly with  *)
(* other durations.                                                        *)

SynthChars == {"q"}

LayerOptions == {"SINE", "OFF"}

\* A direct call of oscillators[index].generate_wave(frequency, duration).
generate_wave_call(index, frequency, duration_ms, strict) ==
  LET r == generate_wave(oscillators[index], frequency, duration_ms, strict)
  IN  /\ gen' = (index :> r)
      /\ last' = Done("generate_wave", "", -1,
                      IF r.raised THEN "raised" ELSE "returned", <<>>)
      /\ UNCHANGED <<oscillators, channels, active_notes>>

SetWaveform == \E name \in waveform_options : update_oscillator_waveform(0, name)

SetLayer ==
  \E index \in OscIndex \ {0}, name \in LayerOptions :
    update_oscillator_waveform(index, name)

SetFilterType == \E t \in filter_options : update_filter_type(0, t)

SetFilterCutoff == \E c \in CutoffValues : update_filter_cutoff(0, c)

SetLfoWaveform == \E name \in LfoChoices : update_lfo_waveform(0, name)

SetLfoRate == \E r \in RateValues : update_lfo_rate(0, r)

SynthKeyPress == \E c \in SynthChars, strict \in BOOLEAN : on_key_press(c, strict)

SynthKeyRelease == \E c \in SynthChars : on_key_release(c)

GenerateWave ==
  \E index \in OscIndex, d \in DurationsMs, strict \in BOOLEAN :
    generate_wave_call(index, key_frequencies["q"], d, strict)

SynthNext ==
  \/ SetWaveform \/ SetLayer \/ SetFilterType \/ SetFilterCutoff
  \/ SetLfoWaveform \/ SetLfoRate
  \/ SynthKeyPress \/ SynthKeyRelease \/ ChannelFinished
  \/ GenerateWave

SpecSynth == Init /\ [][SynthNext]_vars

----------------------------------------------------------------------------
(* Properties *)

Playing(chs, i, key) == chs[i].busy /\ chs[i].sound = key

AllBusy(chs) == \A i \in ChanIndex : chs[i].busy

\* The step is a call of the handler op.
IsCall(op) == last'.op = op /\ last' # last

PressedKey == lower(last'.char)

\* C1: with every slot busy, a Trigger of a further note takes slot 0, and
\* afterwards the table has the new note on slot 0 and no entry for the note
\* that was playing on slot 0.
C1_StealRemovesStolenNote ==
  [][(IsCall("on_key_press") /\ triggers(active_notes, PressedKey) /\ AllBusy(channels))
       => /\ Playing(channels', 0, PressedKey)
          /\ PressedKey \in DOMAIN active_notes'
          /\ active_notes'[PressedKey] = 0
          /\ channels[0].sound \notin DOMAIN active_notes']_vars

\* C2: no note sounds on more than one slot, and a Trigger of a note that has
\* been triggered and not released since changes neither the table nor any
\* slot.
C2_OneVoicePerNote ==
  /\ [](\A i, j \in ChanIndex :
          (channels[i].busy /\ channels[j].busy
             /\ channels[i].sound = channels[j].sound) => i = j)
  /\ [][(IsCall("on_key_press") /\ PressedKey \in DOMAIN active_notes)
          => UNCHANGED <<channels, active_notes>>]_vars

\* A repeated Trigger of a sounding note has just been ignored.
C2_Witness ==
  /\ last.op = "on_key_press"
  /\ last.result = "ignored"
  /\ lower(last.char) \in DOMAIN active_notes
  /\ Playing(channels, active_notes[lower(last.char)], lower(last.char))

\* C3: a Trigger of a note whose entry names a slot that has finished
\* playback is not ignored: it starts playback on a slot and records the note
\* on that slot.
C3_StaleEntryRetriggers ==
  [][(/\ IsCall("on_key_press")
      /\ PressedKey \in DOMAIN key_frequencies
      /\ PressedKey \in DOMAIN active_notes
      /\ ~channels[active_notes[PressedKey]].busy)
       => /\ PressedKey \in DOMAIN active_notes'
          /\ Playing(channels', active_notes'[PressedKey], PressedKey)]_vars

\* C4: a Release of a note with an entry stops the slot the entry names and
\* removes that entry and no other; a Release of a note without an entry
\* changes neither the table nor any slot.
C4_ReleaseFrame ==
  [][IsCall("on_key_release")
       => IF PressedKey \in DOMAIN active_notes
          THEN /\ ~channels'[active_notes[PressedKey]].busy
               /\ DOMAIN active_notes' = (DOMAIN active_notes) \ {PressedKey}
               /\ \A k \in DOMAIN active_notes' : active_notes'[k] = active_notes[k]
          ELSE UNCHANGED <<channels, active_notes>>]_vars

\* A Release has stopped a slot and other notes still have their entries.
C4_Witness ==
  /\ last.op = "on_key_release"
  /\ last.result = "stopped"
  /\ ~channels[last.slot].busy
  /\ Cardinality(DOMAIN active_notes) >= 2
  /\ \E i \in ChanIndex : channels[i].busy

\* C5: a Trigger that allocates takes the lowest-index slot that is not busy,
\* takes slot 0 when every slot is busy, and leaves every other slot as it
\* was.
C5_LowestFreeSlot ==
  [][(IsCall("on_key_press") /\ last'.result = "played")
       => LET c == active_notes'[PressedKey]
          IN  /\ Playing(channels', c, PressedKey)
              /\ \A j \in ChanIndex : j < c => channels[j].busy
              /\ channels[c].busy => (c = 0 /\ AllBusy(channels))
              /\ \A j \in ChanIndex \ {c} : channels'[j] = channels[j]]_vars

\* A Trigger has taken slot 1 past a busy slot 0, with a later slot free.
C5_Witness ==
  /\ last.op = "on_key_press"
  /\ last.result = "played"
  /\ last.slot = 1
  /\ channels[0].busy
  /\ \E j \in ChanIndex : j > 1 /\ ~channels[j].busy

\* C6: no filter design call receives a normalized cutoff of 1 or more.
C6_CutoffBelowNyquist ==
  \A i \in DOMAIN gen :
    \A n \in 1..Len(gen[i].butter_calls) :
      gen[i].butter_calls[n].Wn.num < gen[i].butter_calls[n].Wn.den

\* The length an active oscillator as constructed produces for a duration.
ActiveLen(frequency, duration_ms) ==
  generate_wave(Oscillator("SINE"), frequency, duration_ms, TRUE).wave.len

\* C7: whatever its waveform, filter and LFO settings, an inactive oscillator
\* returns an all-zero signal as long as an active oscillator's for the same
\* duration, and the mix of a played note is divided by the number of
\* oscillators.
C7_InactiveIsSilent ==
  /\ \A i \in DOMAIN gen :
       ~oscillators[i].active
         => /\ ~gen[i].raised
            /\ gen[i].wave.zero
            /\ gen[i].wave.len = ActiveLen(gen[i].frequency, gen[i].duration_ms)
  /\ (last.op = "on_key_press" /\ last.result = "played")
       => /\ last.sound[1].divisor = NumOsc
          /\ last.sound[1].len = ActiveLen(key_frequencies[lower(last.char)], 1000)

\* A note was played with the first oscillator off, its filter set to a
\* cutoff at or above Nyquist, and another layer on.
C7_Witness ==
  /\ last.op = "on_key_press"
  /\ last.result = "played"
  /\ ~oscillators[0].active
  /\ 2 * oscillators[0].filter.cutoff_frequency >= SAMPLE_RATE
  /\ oscillators[0].lfo.waveform # "SINE"
  /\ oscillators[1].active
  /\ gen[0].wave.zero

\* C8 as stated: every generate call runs waveform, LFO and filter, once
\* each, in that order.
C8_AllStagesAlwaysRun ==
  \A i \in DOMAIN gen : gen[i].stages = <<"waveform", "lfo", "filter">>

\* C8 amended: a generate call on an active oscillator runs waveform, LFO
\* and filter once each in that order; a call on an inactive oscillator
\* returns after the gated waveform stage, with no LFO and no filter design.
C8_StagesByActive ==
  \A i \in DOMAIN gen :
    IF oscillators[i].active
    THEN /\ gen[i].stages = <<"waveform", "lfo", "filter">>
         /\ Len(gen[i].butter_calls) = 1
    ELSE /\ gen[i].stages = <<"waveform">>
         /\ gen[i].butter_calls = <<>>
         /\ ~gen[i].raised

\* One note was generated from an active and an inactive oscillator.
C8_Witness ==
  /\ last.op = "on_key_press"
  /\ \E i, j \in DOMAIN gen :
       /\ oscillators[i].active /\ gen[i].stages = <<"waveform", "lfo", "filter">>
       /\ ~oscillators[j].active /\ gen[j].stages = <<"waveform">>

\* C9: a Release of a note stops no slot that is playing another note.
C9_ReleaseSparesOtherNotes ==
  [][IsCall("on_key_release")
       => \A i \in ChanIndex :
            (channels[i].busy /\ channels[i].sound # PressedKey)
              => channels'[i] = channels[i]]_vars

\* C10: every busy slot plays the signal of a note whose entry names that
\* slot.
C10_BusySlotHasEntry ==
  \A i \in ChanIndex :
    channels[i].busy
      => /\ channels[i].sound \in DOMAIN active_notes
         /\ active_notes[channels[i].sound] = i

\* Every slot is busy and the table has more entries than there are slots.
C10_Witness ==
  /\ AllBusy(channels)
  /\ Cardinality(DOMAIN active_notes) > NUM_VOICES

====
